---- MODULE Spec2Model ----
(***************************************************************************)
(* Run/Thread orchestration of euskoog/openai-assistants-link.             *)
(*                                                                         *)
(*   Spec      OpenAIRun.run_async: create-run, the poll loop, tool        *)
(*             resolution and the CancelRun path, against a remote run.    *)
(*   FairSpec  the same run with weak fairness on the steps of run_async,  *)
(*             against a remote that asks for one tool call at a time.     *)
(*   SpecSteps refresh_run_steps of a created run against a remote step    *)
(*             feed that grows and whose steps change status in place.     *)
(*   SpecMerge the merge of refresh_run_steps applied to every small known *)
(*             list and fetched list.                                      *)
(*   SpecAnnot OpenAIAnnotations.remove_and_extract_from_message on every  *)
(*             small message, with the files API up or down.               *)
(*   SpecThread OpenAIThread.get_messages on every thread and cursor.      *)
(*   SpecChat  a turn of ChatService.chat: chat_async, say_async, the run, *)
(*             the reply and the background evaluation task.               *)
(*   SpecStale the run against a remote whose reads may lag behind an      *)
(*             accepted submit.                                            *)
(*   SpecTurns the turn with a second turn acting on the same thread.      *)
(*   SpecMonitor, FairSpecMonitor  ThreadMonitor.run_once and              *)
(*             get_latest_messages on a thread that grows and whose empty  *)
(*             messages get their text; the fair one takes the monitor's   *)
(*             steps whenever they stay possible.                          *)
(*                                                                         *)
(* Python strings are sequences of tokens (concatenation is \o), dicts are *)
(* records, lists are sequences.                                           *)
(***************************************************************************)
EXTENDS Integers, Sequences, FiniteSets, TLC

\* Bounds of the model (not program constants).
MaxCalls == 3       \* tool calls in one required-action batch
MaxBatches == 2     \* required-action batches the remote issues during one run
MaxToolCalls == 3   \* tool calls the remote issues during one run, all batches
MaxStepOps == 4     \* changes of the remote step feed
MaxMergeLen == 3    \* length of the lists the merge is applied to in SpecMerge
MaxMergeIds == 4    \* step ids those lists draw from
MaxAnnotations == 2 \* annotation objects on one text block
MaxThread == 22     \* messages of the thread get_messages is called on
MaxReplies == 2     \* assistant messages the remote run posts during one turn
MaxMonitorOps == 4  \* changes of the thread a ThreadMonitor watches

VARIABLES
    pc,         \* position of run_async: create, loop, sleep, refresh, done, raised
    run,        \* self.run, the Run object last returned by the remote API
    data,       \* self.data
    remote,     \* the run as the remote API holds it
    issued,     \* remote bookkeeping: [batches, calls] issued so far
    submitLog,  \* the submit_tool_outputs requests made, in order
    resolved,   \* the tool_call ids passed to call_function_tool, in order
    iter,       \* what the current loop iteration has done: [resolve, sleep, retrieve]
    failure,    \* the remote request whose failure left run_async, "none" if none
    caught,     \* the exception run_async's except block caught: [type, data]
    steps,      \* self.steps, the known run steps
    remoteSteps,\* the run's steps as the remote API holds them, oldest first
    stepOps,    \* how many times the remote step feed has changed
    synced,     \* refresh_run_steps has run since the feed last changed
    fetched,    \* the run steps handed to the merge, oldest first
    known,      \* self.steps as it was before the merge
    merged,     \* the merge has been applied to known and fetched
    sent,       \* counts of the remote requests of run_async, see Issue
    message,    \* the ThreadMessage handed to OpenAIAnnotations
    filesUp,    \* whether files.retrieve requests get through
    cleaned,    \* the outcome of remove_and_extract_from_message
    thread,     \* the messages of the remote thread, oldest first
    query,      \* the arguments of a get_messages call
    page,       \* what get_messages returned
    monitor,    \* a ThreadMonitor: its position, last_message_id, what it
                \* has passed to on_new_message, and how often the thread changed
    turn,       \* position of ChatService.chat: load, add, run, assemble, returned
    said,       \* what say_async has returned: a tuple, or None after an error
    reply,      \* the outcome of chat_async
    response,   \* the AssistantResponse ChatService.chat returned
    task        \* the background task update_conversation_with_evals

runVars == <<pc, run, data, remote, issued, submitLog, resolved, iter, failure, caught, sent>>
stepVars == <<steps, remoteSteps, stepOps, synced>>
mergeVars == <<fetched, known, merged>>

annVars == <<message, filesUp, cleaned>>
threadVars == <<thread, query, page, monitor>>
chatVars == <<turn, said, reply, response, task>>
auxVars == <<annVars, threadVars, chatVars>>

vars == <<runVars, stepVars, mergeVars, auxVars>>

----------------------------------------------------------------------------
(* Plain helpers.                                                          *)

Range(s) == {s[i] : i \in 1..Len(s)}

\* Python's dict: d[k] = v on a dict held as a record.
DictSet(d, k, v) == [x \in (DOMAIN d) \cup {k} |-> IF x = k THEN v ELSE d[x]]

EmptyDict == [k \in {} |-> <<>>]

----------------------------------------------------------------------------
(* Run statuses.                                                           *)

\* Faulty variant: the loop keeps polling a failed run.
PollingStatuses_WithFailed == {"queued", "in_progress", "requires_action", "failed"}

\* The statuses the poll loop keeps polling on (run_async's while condition).
PollingStatuses == {"queued", "in_progress", "requires_action"}

\* The statuses after which the remote run does not change any more.
TerminalStatuses == {"completed", "failed", "cancelled", "expired"}

\* self.run before create-run has returned.
NoRun == [status |-> "none", required_action |-> <<>>, last_error |-> "none"]

----------------------------------------------------------------------------
(* The tools of the run and the values their callables produce.            *)

\* json.loads accepts this argument string and rejects every other one.
ValidJson == <<"{\"q\": \"x\"}">>
MalformedJson == <<"{q: ">>

\* The payload a tool hands to CancelRun(data=...).
CancelPayload == [reason |-> <<"ended by tool">>]

\* get_tools(): the assistant's tools.  python_fn says what the bound
\* callable does when called; "none" is a Function built without a callable.
Tools ==
    << [type |-> "retrieval", name |-> <<>>, python_fn |-> "none"],
       [type |-> "function", name |-> <<"echo">>, python_fn |-> "returns_str"],
       [type |-> "function", name |-> <<"lookup">>, python_fn |-> "returns_dict"],
       [type |-> "function", name |-> <<"opaque">>, python_fn |-> "returns_object"],
       [type |-> "function", name |-> <<"broken">>, python_fn |-> "raises"],
       [type |-> "function", name |-> <<"end_run">>, python_fn |-> "cancels"],
       [type |-> "function", name |-> <<"stub">>, python_fn |-> "none"] >>

\* What calling the bound callable does: a returned value, or an exception.
PythonFn(fn) ==
    CASE fn = "returns_str" ->
            [raised |-> "none", type |-> "str", value |-> <<"sunny">>, data |-> EmptyDict]
      [] fn = "returns_dict" ->
            [raised |-> "none", type |-> "dict", value |-> <<"temp", "20">>, data |-> EmptyDict]
      [] fn = "returns_object" ->
            [raised |-> "none", type |-> "object", value |-> <<"<object>">>, data |-> EmptyDict]
      [] fn = "raises" ->
            [raised |-> "Exception", type |-> "str", value |-> <<"tool failed">>, data |-> EmptyDict]
      [] fn = "cancels" ->
            [raised |-> "CancelRun", type |-> "str", value |-> <<>>, data |-> CancelPayload]

\* json.dumps of a returned value; only str and dict values are serializable.
JsonDumps(v) ==
    IF v.type = "dict"
    THEN [raised |-> "none", value |-> <<"{\"">> \o <<v.value[1]>> \o <<"\": ">> \o <<v.value[2]>> \o <<"}">>]
    ELSE [raised |-> "Exception",
          value |-> <<"Object of type ">> \o v.value \o <<" is not JSON serializable">>]

\* The first tool of the list that has a function of this name, 0 if none.
FindTool(toolList, function_name) ==
    LET hits == {i \in 1..Len(toolList) :
                    /\ toolList[i].type = "function"
                    /\ toolList[i].name = function_name}
    IN  IF hits = {} THEN 0 ELSE CHOOSE i \in hits : \A j \in hits : i <= j

\* call_function_tool(tools, function_name, function_arguments_json,
\* return_string=True): [raised, output, data]; raised is "none", "Exception"
\* (output is then str(exc)) or "CancelRun" (data is then exc.data).
call_function_tool(toolList, function_name, function_arguments_json) ==
    LET t == FindTool(toolList, function_name) IN
    IF t = 0 \/ toolList[t].python_fn = "none" \/ function_name = <<>>
    THEN [raised |-> "Exception",
          output |-> <<"Could not find function '">> \o function_name \o <<"'">>,
          data |-> EmptyDict]
    ELSE IF function_arguments_json # ValidJson
    THEN [raised |-> "Exception",
          output |-> <<"Expecting property name enclosed in double quotes">>,
          data |-> EmptyDict]
    ELSE LET r == PythonFn(toolList[t].python_fn) IN
         IF r.raised # "none"
         THEN [raised |-> r.raised, output |-> r.value, data |-> r.data]
         ELSE IF r.type = "str"
         THEN [raised |-> "none", output |-> r.value, data |-> EmptyDict]
         ELSE LET j == JsonDumps(r) IN
              [raised |-> j.raised, output |-> j.value, data |-> EmptyDict]

----------------------------------------------------------------------------
(* _handle_step_requires_action: the loop over the batch's tool calls.     *)

\* Faulty variant: every exception of a tool call leaves the for loop.
CancelRunRaised_AnyException(res) == res.raised # "none"

\* Faulty variant: except Exception comes first and catches CancelRun as well.
CancelRunRaised_Never(res) == FALSE

\* except CancelRun: raise.  Does this result leave the for loop?
CancelRunRaised(res) == res.raised = "CancelRun"

\* Faulty variant: a fixed error string, without the function name or the exception.
ErrorOutput_Generic(tool_call, exc) == <<"Error calling function">>

\* except Exception: the error string that becomes the call's output.
ErrorOutput(tool_call, exc) ==
    <<"Error calling function ">> \o tool_call.name \o <<": ">> \o exc

\* Faulty variant: the append sits inside the try block, so a call that raised
\* leaves no output.
AppendOutput_OnlyOnSuccess(tool_outputs, tool_call, res) ==
    IF res.raised = "Exception"
    THEN tool_outputs
    ELSE Append(tool_outputs, [tool_call_id |-> tool_call.id, output |-> res.output])

\* tool_outputs.append(dict(tool_call_id=..., output=output or "")) for a
\* call that did not raise CancelRun.
AppendOutput(tool_outputs, tool_call, res) ==
    LET output == IF res.raised = "Exception"
                  THEN ErrorOutput(tool_call, res.output)
                  ELSE res.output
    IN  Append(tool_outputs,
               [tool_call_id |-> tool_call.id,
                output |-> IF output = <<>> THEN <<>> ELSE output])

\* The for loop from tool call i on.  Returns what the loop leaves behind:
\* cancelled (CancelRun left the loop), payload (exc.data), tool_outputs,
\* resolved (the ids call_function_tool was called for) and self.data.
RECURSIVE ResolveFrom(_, _, _, _, _, _)
ResolveFrom(toolList, tool_calls, i, tool_outputs, ids, d) ==
    IF i > Len(tool_calls)
    THEN [cancelled |-> FALSE, payload |-> EmptyDict, tool_outputs |-> tool_outputs,
          resolved |-> ids, data |-> d]
    ELSE LET tool_call == tool_calls[i]
             res == call_function_tool(toolList, tool_call.name, tool_call.arguments)
         IN  IF CancelRunRaised(res)
             THEN [cancelled |-> TRUE, payload |-> res.data,
                   tool_outputs |-> tool_outputs,
                   resolved |-> Append(ids, tool_call.id), data |-> d]
             ELSE LET outs == AppendOutput(tool_outputs, tool_call, res)
                  IN  ResolveFrom(toolList, tool_calls, i + 1, outs,
                                  Append(ids, tool_call.id),
                                  DictSet(d, "tool_outputs", outs))

ResolveToolCalls(toolList, tool_calls, d) ==
    ResolveFrom(toolList, tool_calls, 1, <<>>, <<>>, d)

----------------------------------------------------------------------------
(* The remote run.                                                         *)

\* The function names and argument strings the remote agent asks for.
CallKinds ==
    { [name |-> <<"echo">>, arguments |-> ValidJson],
      [name |-> <<"echo">>, arguments |-> MalformedJson],
      [name |-> <<"lookup">>, arguments |-> ValidJson],
      [name |-> <<"opaque">>, arguments |-> ValidJson],
      [name |-> <<"broken">>, arguments |-> ValidJson],
      [name |-> <<"end_run">>, arguments |-> ValidJson],
      [name |-> <<"stub">>, arguments |-> ValidJson],
      [name |-> <<"foo">>, arguments |-> ValidJson] }

\* A batch of n tool calls with fresh ids first+1 .. first+n.
Batches(first, n, kinds) ==
    { [i \in 1..n |-> [id |-> first + i, name |-> k[i].name,
                       arguments |-> k[i].arguments]] : k \in [1..n -> kinds] }

OneCallKinds == {k \in CallKinds : k.name \in {<<"echo">>, <<"broken">>, <<"end_run">>}}

RemoteStart ==
    /\ remote.status = "queued"
    /\ remote' = [remote EXCEPT !.status = "in_progress"]
    /\ UNCHANGED <<pc, run, data, issued, submitLog, resolved, iter, failure, caught, sent>>
    /\ UNCHANGED <<stepVars, mergeVars, auxVars>>

\* The remote run stops for a batch of at most maxN tool calls of these kinds.
IssueBatch(maxN, kinds) ==
    /\ remote.status = "in_progress"
    /\ issued.batches < MaxBatches
    /\ \E n \in 1..maxN :
         /\ issued.calls + n <= MaxToolCalls
         /\ \E b \in Batches(issued.calls, n, kinds) :
              /\ remote' = [remote EXCEPT !.status = "requires_action",
                                          !.required_action = b]
              /\ issued' = [batches |-> issued.batches + 1,
                            calls |-> issued.calls + n]
    /\ UNCHANGED <<pc, run, data, submitLog, resolved, iter, failure, caught, sent>>
    /\ UNCHANGED <<stepVars, mergeVars, auxVars>>

RemoteRequiresAction == IssueBatch(MaxCalls, CallKinds)

\* The same with one tool call that returns, raises or cancels.
RemoteRequiresOneCall == IssueBatch(1, OneCallKinds)

RemoteComplete ==
    /\ remote.status = "in_progress"
    /\ remote' = [remote EXCEPT !.status = "completed"]
    /\ UNCHANGED <<pc, run, data, issued, submitLog, resolved, iter, failure, caught, sent>>
    /\ UNCHANGED <<stepVars, mergeVars, auxVars>>

RemoteFail ==
    /\ remote.status = "in_progress"
    /\ remote' = [remote EXCEPT !.status = "failed", !.last_error = "server_error"]
    /\ UNCHANGED <<pc, run, data, issued, submitLog, resolved, iter, failure, caught, sent>>
    /\ UNCHANGED <<stepVars, mergeVars, auxVars>>

RemoteExpire ==
    /\ remote.status \in PollingStatuses
    /\ remote' = [remote EXCEPT !.status = "expired", !.required_action = <<>>]
    /\ UNCHANGED <<pc, run, data, issued, submitLog, resolved, iter, failure, caught, sent>>
    /\ UNCHANGED <<stepVars, mergeVars, auxVars>>

\* Another client of the remote API cancels the run.
RemoteCancel ==
    /\ remote.status \in PollingStatuses
    /\ remote' = [remote EXCEPT !.status = "cancelled", !.required_action = <<>>]
    /\ UNCHANGED <<pc, run, data, issued, submitLog, resolved, iter, failure, caught, sent>>
    /\ UNCHANGED <<stepVars, mergeVars, auxVars>>

----------------------------------------------------------------------------
(* run_async.                                                              *)

\* A request of run_async goes out to the remote API: the create-run
\* requests are counted, and so are the requests made after a request has
\* failed and those made while the run held has status failed.
\* The cancel-run requests are counted too, with the requests made after
\* CancelRun was caught, and the submit-tool-outputs requests made since
\* the last create-run or retrieve-run request.
Issue(kind) ==
    [create |-> sent.create + (IF kind = "create" THEN 1 ELSE 0),
     afterFail |-> sent.afterFail + (IF failure # "none" THEN 1 ELSE 0),
     afterFailed |-> sent.afterFailed + (IF run.status = "failed" THEN 1 ELSE 0),
     cancel |-> sent.cancel + (IF kind = "cancel" THEN 1 ELSE 0),
     afterCancel |-> sent.afterCancel + (IF caught.type = "CancelRun" THEN 1 ELSE 0),
     submits |-> IF kind \in {"create", "retrieve"} THEN 0
                 ELSE sent.submits + (IF kind = "submit" THEN 1 ELSE 0)]

\* client.beta.threads.runs.create, then entering the try block.
CreateRun ==
    /\ pc = "create"
    /\ \E ok \in BOOLEAN :
         IF ok
         THEN /\ remote' = [status |-> "queued", required_action |-> <<>>,
                            last_error |-> "none"]
              /\ run' = remote'
              /\ pc' = "loop"
              /\ UNCHANGED failure
         ELSE /\ pc' = "raised"
              /\ failure' = "create"
              /\ UNCHANGED <<run, remote>>
    /\ sent' = Issue("create")
    /\ UNCHANGED <<data, issued, submitLog, resolved, iter, caught>>
    /\ UNCHANGED <<stepVars, mergeVars, auxVars>>

\* The while condition is false: leave the loop and return self.
LoopExit ==
    /\ pc = "loop"
    /\ run.status \notin PollingStatuses
    /\ pc' = "done"
    /\ UNCHANGED <<run, data, remote, issued, submitLog, resolved, iter, failure, caught, sent>>
    /\ UNCHANGED <<stepVars, mergeVars, auxVars>>

\* Faulty variant: an iteration may go to the sleep without handling the
\* required action.
LoopPoll_SkipsHandler ==
    /\ pc = "loop"
    /\ run.status \in PollingStatuses
    /\ pc' = "sleep"
    /\ iter' = [resolve |-> 0, sleep |-> 0, retrieve |-> 0]
    /\ UNCHANGED <<run, data, remote, issued, submitLog, resolved, failure, caught, sent>>
    /\ UNCHANGED <<stepVars, mergeVars, auxVars>>

\* An iteration that has nothing to resolve goes on to the sleep.
LoopPoll ==
    /\ pc = "loop"
    /\ run.status \in PollingStatuses
    /\ run.status # "requires_action"
    /\ pc' = "sleep"
    /\ iter' = [resolve |-> 0, sleep |-> 0, retrieve |-> 0]
    /\ UNCHANGED <<run, data, remote, issued, submitLog, resolved, failure, caught, sent>>
    /\ UNCHANGED <<stepVars, mergeVars, auxVars>>

\* The remote accepts tool outputs only for the batch it is waiting on.
SubmitAccepted(outs) ==
    /\ remote.status = "requires_action"
    /\ {o.tool_call_id : o \in Range(outs)}
         = {c.id : c \in Range(remote.required_action)}

\* The remote accepts a cancel request only for a run that is not over.
CancelAccepted == remote.status \in PollingStatuses

\* Faulty variant: self.data.update(exc.data)
CancelData_Merged(d, payload) == payload @@ d

\* self.data = exc.data
CancelData(d, payload) == payload

\* Faulty variant: the try/except sits inside the while loop, so the loop
\* goes on to the sleep and the refresh after the cancel-run request.
AfterExcept_InLoop == "sleep"

\* The except block is outside the while loop: after it run_async falls
\* through to the status check and returns self.
AfterExcept == "done"

\* An iteration on requires_action: _handle_step_requires_action, and, when
\* a tool raised CancelRun, run_async's except block (cancel-run request,
\* self.data = exc.data, the refresh_async() coroutine that is created but
\* never awaited, so self.run stays as it was).
HandleRequiresAction ==
    /\ pc = "loop"
    /\ run.status = "requires_action"
    /\ LET r == ResolveToolCalls(Tools, run.required_action, data) IN
         /\ resolved' = resolved \o r.resolved
         /\ iter' = [resolve |-> 1, sleep |-> 0, retrieve |-> 0]
         /\ sent' = Issue(IF r.cancelled THEN "cancel" ELSE "submit")
         /\ IF ~r.cancelled
            THEN /\ submitLog' = Append(submitLog, r.tool_outputs)
                 /\ data' = r.data
                 /\ \E ok \in BOOLEAN :
                      IF ok /\ SubmitAccepted(r.tool_outputs)
                      THEN /\ remote' = [remote EXCEPT !.status = "in_progress",
                                                       !.required_action = <<>>]
                           /\ pc' = "sleep"
                           /\ UNCHANGED failure
                      ELSE /\ pc' = "raised"
                           /\ failure' = "submit"
                           /\ UNCHANGED remote
                 /\ UNCHANGED caught
            ELSE /\ UNCHANGED submitLog
                 /\ caught' = [type |-> "CancelRun", data |-> r.payload]
                 /\ \E ok \in BOOLEAN :
                      IF ok /\ CancelAccepted
                      THEN /\ remote' = [remote EXCEPT !.status = "cancelled",
                                                       !.required_action = <<>>]
                           /\ data' = CancelData(r.data, r.payload)
                           /\ pc' = AfterExcept
                           /\ UNCHANGED failure
                      ELSE /\ data' = r.data
                           /\ pc' = "raised"
                           /\ failure' = "cancel"
                           /\ UNCHANGED remote
    /\ UNCHANGED <<run, issued>>
    /\ UNCHANGED <<stepVars, mergeVars, auxVars>>

\* await asyncio.sleep(0.1)
Sleep ==
    /\ pc = "sleep"
    /\ pc' = "refresh"
    /\ iter' = [iter EXCEPT !.sleep = @ + 1]
    /\ UNCHANGED <<run, data, remote, issued, submitLog, resolved, failure, caught, sent>>
    /\ UNCHANGED <<stepVars, mergeVars, auxVars>>

\* Faulty variant: the retrieved run is dropped and self.run stays as it was.
RetrievedRun_Stale(r) == run

\* What retrieve-run returns for the remote run r.
RetrievedRun(r) == r

\* Faulty variant: a failed retrieve-run request is caught and issued again.
Refresh_Retry ==
    /\ pc = "refresh"
    /\ iter' = [iter EXCEPT !.retrieve = @ + 1]
    /\ \E ok \in BOOLEAN :
         IF ok
         THEN /\ run' = RetrievedRun(remote)
              /\ pc' = "loop"
              /\ UNCHANGED failure
         ELSE /\ pc' = "refresh"
              /\ failure' = "retrieve"
              /\ UNCHANGED run
    /\ sent' = Issue("retrieve")
    /\ UNCHANGED <<data, remote, issued, submitLog, resolved, caught>>
    /\ UNCHANGED <<stepVars, mergeVars, auxVars>>

\* await self.refresh_async(): retrieve-run, then back to the while condition.
Refresh ==
    /\ pc = "refresh"
    /\ iter' = [iter EXCEPT !.retrieve = @ + 1]
    /\ \E ok \in BOOLEAN :
         IF ok
         THEN /\ run' = RetrievedRun(remote)
              /\ pc' = "loop"
              /\ UNCHANGED failure
         ELSE /\ pc' = "raised"
              /\ failure' = "retrieve"
              /\ UNCHANGED run
    /\ sent' = Issue("retrieve")
    /\ UNCHANGED <<data, remote, issued, submitLog, resolved, caught>>
    /\ UNCHANGED <<stepVars, mergeVars, auxVars>>

\* await self.refresh_async() answered by a lagging read of the remote: the
\* run comes back as the previous poll showed it, still in requires_action
\* with the batch that has been handled.
RefreshStale ==
    /\ pc = "refresh"
    /\ run.status = "requires_action"
    /\ iter' = [iter EXCEPT !.retrieve = @ + 1]
    /\ pc' = "loop"
    /\ sent' = Issue("retrieve")
    /\ UNCHANGED <<run, data, remote, issued, submitLog, resolved, failure, caught>>
    /\ UNCHANGED <<stepVars, mergeVars, auxVars>>

----------------------------------------------------------------------------
(* refresh_run_steps.  A run step is [id, status]; the remote numbers the  *)
(* steps of a run 1, 2, ... in creation order.                             *)

max_fetched == 100
limit == 50
max_attempts == max_fetched \div limit + 2

StepIds(s) == {s[i].id : i \in 1..Len(s)}

\* Faulty variant: the page is kept in the order the remote lists it.
Reversed_Keep(s) == s

\* list(reversed(response.data))
Reversed(s) == [j \in 1..Len(s) |-> s[Len(s) + 1 - j]]

\* client.beta.threads.runs.steps.list(limit=lim, after=cursor): the remote
\* lists newest first, at most lim steps, those older than the step `after`
\* (after = 0: from the newest).
ListRunSteps(feed, lim, after) ==
    LET older == IF after = 0
                 THEN Len(feed)
                 ELSE Cardinality({i \in 1..Len(feed) : feed[i].id < after})
        n == IF older < lim THEN older ELSE lim
    IN  [j \in 1..n |-> feed[older + 1 - j]]

\* Faulty variant: the loop does not stop at max_fetched.
RECURSIVE PageBack_NoFetchCap(_, _, _, _, _, _, _)
PageBack_NoFetchCap(feed, latest_step_id, run_steps, missing_latest, total_fetched, attempts, requests) ==
    IF /\ run_steps # <<>>
       /\ missing_latest
       /\ attempts < max_attempts
    THEN LET paginated_steps == Reversed(ListRunSteps(feed, limit, run_steps[1].id))
             rest == PageBack_NoFetchCap(feed, latest_step_id, paginated_steps \o run_steps,
                      IF latest_step_id \in StepIds(paginated_steps)
                      THEN FALSE ELSE missing_latest,
                      total_fetched + Len(paginated_steps),
                      attempts + 1, requests + 1)
         IN  [rest EXCEPT !.after = <<run_steps[1].id>> \o @]
    ELSE [run_steps |-> run_steps, requests |-> requests, after |-> <<>>]

\* The while loop that pages backward.  Returns the accumulated run_steps,
\* the number of list requests made so far and the `after` cursors of the
\* paging requests, in order.
RECURSIVE PageBack(_, _, _, _, _, _, _)
PageBack(feed, latest_step_id, run_steps, missing_latest, total_fetched, attempts, requests) ==
    IF /\ run_steps # <<>>
       /\ missing_latest
       /\ total_fetched < max_fetched
       /\ attempts < max_attempts
    THEN LET paginated_steps == Reversed(ListRunSteps(feed, limit, run_steps[1].id))
             rest == PageBack(feed, latest_step_id, paginated_steps \o run_steps,
                      IF latest_step_id \in StepIds(paginated_steps)
                      THEN FALSE ELSE missing_latest,
                      total_fetched + Len(paginated_steps),
                      attempts + 1, requests + 1)
         IN  [rest EXCEPT !.after = <<run_steps[1].id>> \o @]
    ELSE [run_steps |-> run_steps, requests |-> requests, after |-> <<>>]

\* The fetch of refresh_run_steps: the first page, then the paging loop.
\* latest_step_id 0 stands for None.
FetchRunSteps(known_steps, feed) ==
    LET run_steps == Reversed(ListRunSteps(feed, limit, 0))
        latest_step_id == IF known_steps # <<>>
                          THEN known_steps[Len(known_steps)].id ELSE 0
        missing_latest == IF latest_step_id # 0
                          THEN latest_step_id \notin StepIds(run_steps)
                          ELSE TRUE
    IN  IF run_steps = <<>>
        THEN [run_steps |-> <<>>, requests |-> 1, after |-> <<>>]
        ELSE PageBack(feed, latest_step_id, run_steps, missing_latest,
                      Len(run_steps), 0, 1)

\* new_steps_dict = {rs.id: rs for rs in run_steps}, held as the sequence of
\* its values in insertion order: a key keeps the place of its first
\* occurrence and the value of its last.
NewStepsDict(run_steps) ==
    IF Cardinality(StepIds(run_steps)) = Len(run_steps)
    THEN run_steps
    ELSE LET firsts == SelectSeq([i \in 1..Len(run_steps) |-> i],
                           LAMBDA i : \A j \in 1..(i - 1) :
                                         run_steps[j].id # run_steps[i].id)
             last(id) == CHOOSE i \in 1..Len(run_steps) :
                            /\ run_steps[i].id = id
                            /\ \A j \in (i + 1)..Len(run_steps) : run_steps[j].id # id
         IN  [k \in 1..Len(firsts) |-> run_steps[last(run_steps[firsts[k]].id)]]

\* The value the dict holds for a key.
DictValue(dict, id) == dict[CHOOSE i \in 1..Len(dict) : dict[i].id = id]

\* The backward walk over self.steps: the index at which it breaks (0 when
\* it runs off the front), with `keys` the ids still in the dict.
RECURSIVE WalkStop(_, _, _)
WalkStop(known_steps, i, keys) ==
    IF i = 0 THEN 0
    ELSE IF known_steps[i].id \in keys
    THEN WalkStop(known_steps, i - 1, keys \ {known_steps[i].id})
    ELSE i

\* Faulty variant: the walk reads the dict without popping, so every fetched step
\* is appended.
MergeSteps_NoPop(known_steps, run_steps) ==
    LET dict == NewStepsDict(run_steps)
        stop == WalkStop(known_steps, Len(known_steps), StepIds(dict))
    IN  [i \in 1..Len(known_steps) |->
            IF i > stop THEN DictValue(dict, known_steps[i].id) ELSE known_steps[i]]
        \o dict

\* Faulty variant: known steps are kept as they are, only unseen steps are appended.
MergeSteps_KeepKnown(known_steps, run_steps) ==
    LET dict == NewStepsDict(run_steps)
        stop == WalkStop(known_steps, Len(known_steps), StepIds(dict))
        popped == {known_steps[i].id : i \in (stop + 1)..Len(known_steps)}
    IN  known_steps \o SelectSeq(dict, LAMBDA rs : rs.id \notin popped)

\* Faulty variant: the walk goes on past a known step that was not fetched,
\* so older known steps are replaced too.
MergeSteps_NoBreak(known_steps, run_steps) ==
    LET dict == NewStepsDict(run_steps)
        popped == StepIds(known_steps) \cap StepIds(dict)
    IN  [i \in 1..Len(known_steps) |->
            IF known_steps[i].id \in popped
            THEN DictValue(dict, known_steps[i].id) ELSE known_steps[i]]
        \o SelectSeq(dict, LAMBDA rs : rs.id \notin popped)

\* "Update self.steps with the latest data": the walk replaces and pops,
\* then the values left in the dict are appended.
MergeSteps(known_steps, run_steps) ==
    LET dict == NewStepsDict(run_steps)
        stop == WalkStop(known_steps, Len(known_steps), StepIds(dict))
        popped == {known_steps[i].id : i \in (stop + 1)..Len(known_steps)}
    IN  [i \in 1..Len(known_steps) |->
            IF i > stop THEN DictValue(dict, known_steps[i].id) ELSE known_steps[i]]
        \o SelectSeq(dict, LAMBDA rs : rs.id \notin popped)

\* What refresh_run_steps does with the fetched run_steps: nothing when the
\* first page was empty, the merge otherwise.
UpdateSteps(known_steps, run_steps) ==
    IF run_steps = <<>> THEN known_steps ELSE MergeSteps(known_steps, run_steps)

\* self.steps after refresh_run_steps.
refresh_run_steps(known_steps, feed) ==
    UpdateSteps(known_steps, FetchRunSteps(known_steps, feed).run_steps)

\* Faulty variant: the monitor never looks for its last known step and
\* pages until a cap stops it.
RunMonitor_FetchRunSteps_NoLatest(known_steps, feed) ==
    LET run_steps == Reversed(ListRunSteps(feed, limit, 0))
    IN  PageBack(feed, 0, run_steps, TRUE, Len(run_steps), 0, 1)

\* The fetch of RunMonitor.refresh_run_steps_async: the same first page and
\* paging loop, with no return on an empty first page.
RunMonitor_FetchRunSteps(known_steps, feed) ==
    LET run_steps == Reversed(ListRunSteps(feed, limit, 0))
        latest_step_id == IF known_steps # <<>>
                          THEN known_steps[Len(known_steps)].id ELSE 0
        missing_latest == IF latest_step_id # 0
                          THEN latest_step_id \notin StepIds(run_steps)
                          ELSE TRUE
    IN  PageBack(feed, latest_step_id, run_steps, missing_latest,
                 Len(run_steps), 0, 1)

\* RunMonitor's self.steps after refresh_run_steps_async: the merge is run
\* on whatever was fetched.
RunMonitor_refresh_run_steps(known_steps, feed) ==
    MergeSteps(known_steps, RunMonitor_FetchRunSteps(known_steps, feed).run_steps)

\* How many steps the remote appends at once.
AppendSizes == {1, limit, max_fetched + 1}

\* The remote run produces k more steps; the newest is still in progress.
RemoteAppendSteps ==
    /\ stepOps < MaxStepOps
    /\ \E k \in AppendSizes :
         remoteSteps' = remoteSteps \o
            [j \in 1..k |-> [id |-> Len(remoteSteps) + j,
                             status |-> IF j = k THEN "in_progress" ELSE "completed"]]
    /\ stepOps' = stepOps + 1
    /\ synced' = FALSE
    /\ UNCHANGED steps
    /\ UNCHANGED <<runVars, mergeVars, auxVars>>

\* A step changes status in place.
RemoteCompleteStep ==
    /\ stepOps < MaxStepOps
    /\ \E i \in 1..Len(remoteSteps) :
         /\ remoteSteps[i].status = "in_progress"
         /\ remoteSteps' = [remoteSteps EXCEPT ![i].status = "completed"]
    /\ stepOps' = stepOps + 1
    /\ synced' = FALSE
    /\ UNCHANGED steps
    /\ UNCHANGED <<runVars, mergeVars, auxVars>>

RefreshRunSteps ==
    /\ run.status # "none"
    /\ steps' = refresh_run_steps(steps, remoteSteps)
    /\ synced' = TRUE
    /\ UNCHANGED <<remoteSteps, stepOps>>
    /\ UNCHANGED <<runVars, mergeVars, auxVars>>

\* The merge applied to the lists SpecMerge starts from.
UpdateKnownSteps ==
    /\ ~merged
    /\ steps' = UpdateSteps(steps, fetched)
    /\ known' = steps
    /\ merged' = TRUE
    /\ UNCHANGED <<fetched, remoteSteps, stepOps, synced>>
    /\ UNCHANGED <<runVars, auxVars>>

----------------------------------------------------------------------------
(* OpenAIAnnotations.  A ThreadMessage is [id, role, content]; a content   *)
(* block is [type, text] or [type, image_file]; a text is                  *)
(* [value, annotations].  An attribute an object lacks is a field its      *)
(* record lacks.  A call's outcome is [raised, value].                     *)

Returns(v) == [raised |-> "none", value |-> v]
RaisesExc(exc) == [raised |-> exc, value |-> <<>>]

\* str.replace(old, ""): every non-overlapping occurrence of old, from the
\* left, is dropped; an empty old changes nothing.
RECURSIVE Replace(_, _)
Replace(s, old) ==
    IF old = <<>> \/ Len(s) < Len(old) THEN s
    ELSE IF SubSeq(s, 1, Len(old)) = old
    THEN Replace(SubSeq(s, Len(old) + 1, Len(s)), old)
    ELSE <<s[1]>> \o Replace(Tail(s), old)

\* The annotation markers a generated text may carry.
Markers == {"[1]", "[2]"}

\* remove_annotation_tags: re.sub of the marker pattern.
remove_annotation_tags(text) == SelectSeq(text, LAMBDA t : t \notin Markers)

\* message.content[0].text
FirstText(m) ==
    IF m.content = <<>> THEN RaisesExc("IndexError")
    ELSE IF "text" \notin DOMAIN m.content[1] THEN RaisesExc("AttributeError")
    ELSE Returns(m.content[1].text)

\* The for loop of remove_from_message from annotation i on.
RECURSIVE RemoveFrom(_, _, _)
RemoveFrom(annotations, i, cleaned_message_content) ==
    IF i > Len(annotations) THEN Returns(cleaned_message_content)
    ELSE IF "text" \notin DOMAIN annotations[i] THEN RaisesExc("AttributeError")
    ELSE RemoveFrom(annotations, i + 1,
                    Replace(cleaned_message_content, annotations[i].text))

\* Faulty variant: the regex pass that the source has commented out is run.
remove_from_message_WithRegex(m) ==
    LET message_content == FirstText(m) IN
    IF message_content.raised # "none" THEN message_content
    ELSE LET r == RemoveFrom(message_content.value.annotations, 1,
                             message_content.value.value)
         IN  IF r.raised # "none" THEN r
             ELSE Returns(remove_annotation_tags(r.value))

remove_from_message(m) ==
    LET message_content == FirstText(m) IN
    IF message_content.raised # "none" THEN message_content
    ELSE RemoveFrom(message_content.value.annotations, 1,
                    message_content.value.value)

\* The files the remote API holds: file id -> filename.
Files == [f1 |-> <<"report.pdf">>, f2 |-> <<"data.csv">>]

\* client.files.retrieve(file_id)
RetrieveFile(file_id, up) ==
    IF up /\ file_id \in DOMAIN Files
    THEN Returns([filename |-> Files[file_id]])
    ELSE RaisesExc("APIError")

\* annotation.model_dump()
ModelDump(annotation) == [dumped |-> annotation]

\* What one annotation adds to the list: a file citation, a file download,
\* or nothing.
Citation(annotation, up) ==
    IF "file_citation" \in DOMAIN annotation
    THEN LET file_citation == annotation.file_citation IN
         IF "file_id" \notin DOMAIN file_citation THEN RaisesExc("AttributeError")
         ELSE IF file_citation.file_id = "" THEN Returns(<<>>)
         ELSE LET cited_file == RetrieveFile(file_citation.file_id, up) IN
              IF cited_file.raised # "none" THEN cited_file
              ELSE IF "quote" \notin DOMAIN file_citation
              THEN RaisesExc("AttributeError")
              ELSE Returns(<<[type |-> "file_citation",
                              value |-> file_citation.quote \o <<" from ">>
                                           \o cited_file.value.filename,
                              annotation |-> ModelDump(annotation)]>>)
    ELSE IF "file_path" \in DOMAIN annotation
    THEN LET file_path == annotation.file_path IN
         IF "file_id" \notin DOMAIN file_path THEN RaisesExc("AttributeError")
         ELSE IF file_path.file_id = "" THEN Returns(<<>>)
         ELSE LET cited_file == RetrieveFile(file_path.file_id, up) IN
              IF cited_file.raised # "none" THEN cited_file
              ELSE Returns(<<[type |-> "file_download",
                              value |-> <<"Click <here> to download ">>
                                           \o cited_file.value.filename,
                              annotation |-> annotation]>>)
    ELSE Returns(<<>>)

\* Faulty variant: each record is put in front of the list.
RECURSIVE ExtractFrom_Prepend(_, _, _, _)
ExtractFrom_Prepend(message_annotations, i, annotations, up) ==
    IF i > Len(message_annotations) THEN Returns(annotations)
    ELSE LET c == Citation(message_annotations[i], up) IN
         IF c.raised # "none" THEN c
         ELSE ExtractFrom_Prepend(message_annotations, i + 1,
                                  c.value \o annotations, up)

\* The for loop of extract_from_message from annotation i on.
RECURSIVE ExtractFrom(_, _, _, _)
ExtractFrom(message_annotations, i, annotations, up) ==
    IF i > Len(message_annotations) THEN Returns(annotations)
    ELSE LET c == Citation(message_annotations[i], up) IN
         IF c.raised # "none" THEN c
         ELSE ExtractFrom(message_annotations, i + 1, annotations \o c.value, up)

\* The try block of extract_from_message.
TryExtract(m, up) ==
    LET message_content == FirstText(m) IN
    IF message_content.raised # "none" THEN message_content
    ELSE ExtractFrom(message_content.value.annotations, 1, <<>>, up)

\* extract_from_message: whatever the try block raises gives [].
extract_from_message(m, up) ==
    LET r == TryExtract(m, up) IN
    IF r.raised # "none" THEN <<>> ELSE r.value

\* remove_and_extract_from_message: the except block reads
\* message.content[0].text.value again, outside any try.
remove_and_extract_from_message(m, up) ==
    LET cleaned_message_content == remove_from_message(m) IN
    IF cleaned_message_content.raised = "none"
    THEN Returns([content |-> cleaned_message_content.value,
                  annotations |-> extract_from_message(m, up)])
    ELSE LET message_content == FirstText(m) IN
         IF message_content.raised # "none" THEN message_content
         ELSE Returns([content |-> message_content.value.value,
                       annotations |-> <<>>])

\* The annotation objects the remote API may attach to a text: well-formed
\* citations and file paths, a citation of a file the API does not hold, a
\* citation with an empty file id, and malformed objects (no text, no
\* quote, neither kind of reference).
AnnotationObjects ==
    UNION { { [type |-> "file_citation", text |-> t,
               file_citation |-> [file_id |-> "f1", quote |-> <<"q">>]],
              [type |-> "file_citation", text |-> t,
               file_citation |-> [file_id |-> "f9", quote |-> <<"q">>]],
              [type |-> "file_citation", text |-> t,
               file_citation |-> [file_id |-> "", quote |-> <<"q">>]],
              [type |-> "file_citation", text |-> t,
               file_citation |-> [file_id |-> "f1"]],
              [type |-> "file_path", text |-> t,
               file_path |-> [file_id |-> "f2"]],
              [type |-> "unknown", text |-> t] } : t \in {<<"[1]">>, <<"[2]">>} }
    \cup { [type |-> "file_citation",
            file_citation |-> [file_id |-> "f1", quote |-> <<"q">>]] }

\* The generated texts: markers may repeat, and a marker may come without
\* its annotation object.
TextValues ==
    { <<"a", "[1]", "b">>, <<"[1]", "a", "[1]", "[2]">>, <<"a">> }

AnnotationLists(n) ==
    UNION { [1..k -> AnnotationObjects] : k \in 0..n }

ImageBlock == [type |-> "image_file", image_file |-> [file_id |-> "f3"]]

TextBlock(value, annotations) ==
    [type |-> "text", text |-> [value |-> value, annotations |-> annotations]]

\* The assistant messages: a text block, a text block followed by an image,
\* an image followed by a text block, an image alone.
ThreadMessages(n) ==
    UNION { { [id |-> "msg", role |-> "assistant", content |-> <<TextBlock(v, a)>>],
              [id |-> "msg", role |-> "assistant",
               content |-> <<TextBlock(v, a), ImageBlock>>],
              [id |-> "msg", role |-> "assistant",
               content |-> <<ImageBlock, TextBlock(v, a)>>] } :
            v \in TextValues, a \in AnnotationLists(n) }
    \cup { [id |-> "msg", role |-> "assistant", content |-> <<ImageBlock>>] }

NoMessage == [id |-> "none", role |-> "none", content |-> <<>>]
NotCleaned == [raised |-> "pending", value |-> <<>>]

RemoveAndExtract ==
    /\ cleaned = NotCleaned
    /\ message # NoMessage
    /\ cleaned' = remove_and_extract_from_message(message, filesUp)
    /\ UNCHANGED <<message, filesUp>>
    /\ UNCHANGED <<runVars, stepVars, mergeVars, threadVars, chatVars>>

AnnIdle ==
    /\ message = NoMessage
    /\ filesUp = TRUE
    /\ cleaned = NotCleaned

----------------------------------------------------------------------------
(* OpenAIThread.  The remote thread is the sequence of its messages, oldest *)
(* first; a message is [id, created_at, role, content].  A cursor or a      *)
(* limit of 0 stands for None.                                              *)

\* The page size of the remote API when the request names none.
DefaultLimit == 20

\* The position of the message with this id in the list, 0 if none.
IndexOf(list, id) ==
    IF \E i \in 1..Len(list) : list[i].id = id
    THEN CHOOSE i \in 1..Len(list) : list[i].id = id
    ELSE 0

\* client.beta.threads.messages.list(before, after, limit, order="desc"):
\* the list is newest first; `after` keeps what follows the cursor in the
\* list, `before` what precedes it; a page holds at most lim messages,
\* the first ones after the `after` cursor, or else the ones right before
\* the `before` cursor.
ListMessages(msgs, before, after, lim) ==
    LET desc == Reversed(msgs)
        from == IF after = 0 THEN 1 ELSE IndexOf(desc, after) + 1
        to == IF before = 0 THEN Len(desc) ELSE IndexOf(desc, before) - 1
        n == IF lim = 0 THEN DefaultLimit ELSE lim
        between == SubSeq(desc, from, to)
    IN  IF Len(between) <= n THEN between
        ELSE IF after = 0 /\ before # 0
        THEN SubSeq(between, Len(between) - n + 1, Len(between))
        ELSE SubSeq(between, 1, n)

\* Faulty variant: the cursors go to the API under their own names.
get_messages_Unswapped(msgs, lim, before_message, after_message) ==
    Reversed(ListMessages(msgs, before_message, after_message, lim))

\* OpenAIThread.get_messages: before=after_message, after=before_message,
\* then the page reversed.
get_messages(msgs, lim, before_message, after_message) ==
    Reversed(ListMessages(msgs, after_message, before_message, lim))

\* A thread of n messages, user and assistant in turn.
ThreadOf(n) ==
    [i \in 1..n |-> [id |-> i, created_at |-> 1000 + i,
                     role |-> IF i % 2 = 1 THEN "user" ELSE "assistant",
                     content |-> <<>>]]

NoPage == <<[id |-> 0]>>

\* A call of get_messages with the arguments held in query.
GetMessages ==
    /\ page = NoPage
    /\ query.called
    /\ page' = get_messages(thread, query.limit, query.before_message,
                            query.after_message)
    /\ UNCHANGED <<thread, query, monitor>>
    /\ UNCHANGED <<runVars, stepVars, mergeVars, annVars, chatVars>>

\* A ThreadMonitor as constructed: last_message_id is None (0), nothing
\* was passed to on_new_message.
NewMonitor ==
    [pc |-> "idle", last_message_id |-> 0, delivered |-> <<>>, tick |-> 0,
     backward |-> FALSE, ops |-> 0]

ThreadIdle ==
    /\ thread = <<>>
    /\ query = [called |-> FALSE, limit |-> 0, before_message |-> 0,
                after_message |-> 0]
    /\ page = NoPage
    /\ monitor = NewMonitor

----------------------------------------------------------------------------
(* ThreadMonitor.  run_async calls run_once again and again; run_once      *)
(* passes what get_latest_messages returns to on_new_message.              *)

\* limit = 20 of get_latest_messages
monitor_limit == 20

\* The inner loop of get_latest_messages: a message is skipped when the
\* text of one of its content blocks is the empty string.
SkipMessage(msg) ==
    \E c \in Range(msg.content) : "text" \in DOMAIN c /\ c.text.value = <<>>

\* How many messages the remote adds to the thread at once.
CreateSizes == {1, monitor_limit}

\* The remote adds k messages, all with their text or all still empty.
RemoteCreateMessages ==
    /\ monitor.ops < MaxMonitorOps
    /\ \E k \in CreateSizes, v \in {<<>>, <<"t">>} :
         thread' = thread \o
            [j \in 1..k |-> [id |-> Len(thread) + j,
                             created_at |-> 1000 + Len(thread) + j,
                             role |-> "assistant",
                             content |-> <<[type |-> "text",
                                            text |-> [value |-> v,
                                                      annotations |-> <<>>]]>>]]
    /\ monitor' = [monitor EXCEPT !.ops = @ + 1]
    /\ UNCHANGED <<query, page>>
    /\ UNCHANGED <<runVars, stepVars, mergeVars, annVars, chatVars>>

\* The oldest message that is still empty gets its text.
RemotePopulateMessage ==
    /\ monitor.ops < MaxMonitorOps
    /\ \E i \in 1..Len(thread) :
         /\ SkipMessage(thread[i])
         /\ \A j \in 1..(i - 1) : ~SkipMessage(thread[j])
         /\ thread' = [thread EXCEPT ![i].content[1].text.value = <<"t">>]
    /\ monitor' = [monitor EXCEPT !.ops = @ + 1]
    /\ UNCHANGED <<query, page>>
    /\ UNCHANGED <<runVars, stepVars, mergeVars, annVars, chatVars>>

\* run_async's loop calls run_once, which calls get_latest_messages.
RunOnce ==
    /\ monitor.pc = "idle"
    /\ monitor' = [monitor EXCEPT !.pc = "fetch"]
    /\ UNCHANGED <<thread, query, page>>
    /\ UNCHANGED <<runVars, stepVars, mergeVars, annVars, chatVars>>

\* One iteration of the while loop of get_latest_messages: the request,
\* the filter, the move of last_message_id, and on a batch shorter than the
\* limit the return to run_once, which passes the filtered messages of
\* this batch to on_new_message.  A failed request leaves run_once as an
\* exception that run_async logs.
GetLatestBatch ==
    /\ monitor.pc = "fetch"
    /\ \E ok \in BOOLEAN :
         IF ~ok
         THEN monitor' = [monitor EXCEPT !.pc = "idle"]
         ELSE LET messages == get_messages(thread, monitor_limit, 0,
                                           monitor.last_message_id)
                  filtered_messages == SelectSeq(messages, LAMBDA m : ~SkipMessage(m))
                  last == IF filtered_messages # <<>>
                          THEN filtered_messages[Len(filtered_messages)].id
                          ELSE monitor.last_message_id
              IN  monitor' =
                    [monitor EXCEPT
                       !.last_message_id = last,
                       !.backward = @ \/ last < monitor.last_message_id,
                       !.pc = IF Len(messages) < monitor_limit THEN "idle" ELSE "fetch",
                       !.tick = IF Len(messages) < monitor_limit THEN @ ELSE 1 - @,
                       !.delivered = IF Len(messages) < monitor_limit
                                     THEN @ \o [i \in 1..Len(filtered_messages) |->
                                                  filtered_messages[i].id]
                                     ELSE @]
    /\ UNCHANGED <<thread, query, page>>
    /\ UNCHANGED <<runVars, stepVars, mergeVars, annVars, chatVars>>

----------------------------------------------------------------------------
(* A conversational turn: ChatService.chat, OpenAIAssistant.chat_async and  *)
(* say_async.  An exception is the sequence <<type>> or <<type, detail>>,   *)
(* <<>> when there is none; an application Message is                       *)
(* [id, role, content, metadata].                                           *)

FallbackText == <<"Oops! It seems like we're experiencing technical difficulties right now.">>

\* str(e)
Str(e) ==
    CASE e[1] = "APIError" -> <<"Request failed: ", e[2]>>
      [] e[1] = "TypeError" -> <<"cannot unpack non-iterable NoneType object">>
      [] e[1] = "IndexError" -> <<"list index out of range">>
      [] e[1] = "AttributeError" -> <<"object has no attribute 'text'">>
      [] e[1] = "UnboundLocalError" ->
            <<"cannot access local variable 'user_thread_message'">>
      [] e[1] = "ValidationError" -> <<"1 validation error for Message">>
      [] e[1] = "ValueError" -> <<"too many values to unpack (expected 2)">>
      [] OTHER -> <<e[1]>>

\* combine_strings(*args): "".join of the str of each argument.
RECURSIVE combine_strings(_)
combine_strings(args) ==
    IF args = <<>> THEN <<>> ELSE Head(args) \o combine_strings(Tail(args))

\* What the remote agent may post as one assistant message.
ReplyContents ==
    { <<TextBlock(<<"a">>, <<>>)>>,
      <<TextBlock(<<"a", "[1]", "b">>,
                  <<[type |-> "file_citation", text |-> <<"[1]">>,
                     file_citation |-> [file_id |-> "f1", quote |-> <<"q">>]]>>)>>,
      <<ImageBlock, TextBlock(<<"b">>, <<>>)>> }

NewMessage(role, content) ==
    [id |-> Len(thread) + 1, created_at |-> 1000 + Len(thread) + 1,
     role |-> role, content |-> content]

NotSaid == [state |-> "pending"]
NotReplied == [raised |-> <<"pending">>, value |-> <<>>]
NoResponse == [state |-> "pending", success |-> FALSE]
NotScheduled == [state |-> "none"]

\* chat.py 171-256: loading the assistant, the AI assistant and the
\* conversation.  A missing one returns its own error response; an
\* exception goes to the except block of chat.
LoadErrors == {"assistant", "ai_assistant", "conversation"}

LoadErrorResponse(what) ==
    [state |-> "returned", success |-> FALSE,
     data |-> [message |-> [id |-> 0, role |-> "ASSISTANT",
                            content |-> <<"Error loading the ", what>>,
                            metadata |-> EmptyDict],
               conversation_id |-> ""]]

\* The except block of ChatService.chat.
FallbackResponse(e) ==
    [state |-> "returned", success |-> FALSE,
     data |-> [message |-> [id |-> 0, role |-> "ASSISTANT",
                            content |-> FallbackText,
                            metadata |-> [error |-> Str(e)]],
               conversation_id |-> "thread"]]

ChatLoad ==
    /\ turn = "load"
    /\ \E outcome \in {"ok", "raised"} \cup LoadErrors :
         IF outcome = "ok"
         THEN turn' = "add" /\ UNCHANGED response
         ELSE /\ turn' = "returned"
              /\ response' = IF outcome = "raised"
                             THEN FallbackResponse(<<"AttributeError">>)
                             ELSE LoadErrorResponse(outcome)
    /\ UNCHANGED <<said, reply, task>>
    /\ UNCHANGED <<runVars, stepVars, mergeVars, annVars, threadVars>>

\* say_async up to the run: thread.add, then thread.run_async starts
\* run_async.  A failure is printed and say_async returns None.
SayAdd ==
    /\ turn = "add"
    /\ \E ok \in BOOLEAN :
         IF ok
         THEN /\ thread' = Append(thread, NewMessage("user", <<TextBlock(<<"hi">>, <<>>)>>))
              /\ said' = [state |-> "running", user_message |-> thread'[Len(thread')]]
              /\ pc' = "create"
              /\ turn' = "run"
         ELSE /\ said' = [state |-> "none", error |-> <<"APIError", "add">>]
              /\ turn' = "assemble"
              /\ UNCHANGED <<thread, pc>>
    /\ UNCHANGED <<reply, response, task, query, page, monitor>>
    /\ UNCHANGED <<run, data, remote, issued, submitLog, resolved, iter, failure, caught, sent>>
    /\ UNCHANGED <<stepVars, mergeVars, annVars>>

\* The remote run posts an assistant message to the thread.
RemotePostMessage ==
    /\ remote.status = "in_progress"
    /\ said.state = "running"
    /\ Len(thread) - IndexOf(thread, said.user_message.id) < MaxReplies
    /\ \E c \in ReplyContents : thread' = Append(thread, NewMessage("assistant", c))
    /\ UNCHANGED <<turn, said, reply, response, task, query, page, monitor>>
    /\ UNCHANGED <<runVars, stepVars, mergeVars, annVars>>

\* The remote API refuses a new message or run on a thread while a run on
\* it is active: another turn can act on the thread once this turn has
\* added its message, before this turn's run is created or after it is over.
ThreadOpenToOthers ==
    /\ said.state = "running"
    /\ pc = "create" \/ (pc \in {"loop", "sleep", "refresh", "done"}
                            /\ remote.status \in TerminalStatuses)

\* A second turn on the same thread: its say_async adds its user message.
OtherTurnAdd ==
    /\ ThreadOpenToOthers
    /\ ~ \E m \in Range(thread) : "turn" \in DOMAIN m
    /\ thread' = Append(thread,
                        [id |-> Len(thread) + 1, created_at |-> 1000 + Len(thread) + 1,
                         role |-> "user",
                         content |-> <<TextBlock(<<"ho">>, <<>>)>>,
                         turn |-> "other"])
    /\ UNCHANGED <<turn, said, reply, response, task, query, page, monitor>>
    /\ UNCHANGED <<runVars, stepVars, mergeVars, annVars>>

\* The run of the second turn posts an assistant message.
OtherRunPost ==
    /\ ThreadOpenToOthers
    /\ pc # "create"
    /\ thread # <<>>
    /\ "turn" \in DOMAIN thread[Len(thread)]
    /\ thread[Len(thread)].role = "user"
    /\ thread' = Append(thread,
                        [id |-> Len(thread) + 1, created_at |-> 1000 + Len(thread) + 1,
                         role |-> "assistant",
                         content |-> <<TextBlock(<<"b">>, <<>>)>>,
                         turn |-> "other"])
    /\ UNCHANGED <<turn, said, reply, response, task, query, page, monitor>>
    /\ UNCHANGED <<runVars, stepVars, mergeVars, annVars>>

HasImage(m) == \E b \in Range(m.content) : b.type = "image_file"

\* say_async after the run: run_async has returned or raised; then
\* thread.get_messages(after_message=user_message.id) and pprint_messages,
\* which downloads the image of an image block.
SayGet ==
    /\ turn = "run"
    /\ pc \in {"done", "raised"}
    /\ turn' = "assemble"
    /\ IF pc = "raised"
       THEN said' = [state |-> "none", error |-> <<"APIError", failure>>]
       ELSE \E ok \in BOOLEAN, shown \in BOOLEAN :
              LET thread_messages == get_messages(thread, 0, 0, said.user_message.id) IN
              said' = IF ~ok
                      THEN [state |-> "none", error |-> <<"APIError", "list">>]
                      ELSE IF ~shown /\ \E m \in Range(thread_messages) : HasImage(m)
                      THEN [state |-> "none", error |-> <<"APIError", "download">>]
                      ELSE [state |-> "tuple", user_message |-> said.user_message,
                            thread_messages |-> thread_messages]
    /\ UNCHANGED <<reply, response, task>>
    /\ UNCHANGED <<runVars, stepVars, mergeVars, annVars, threadVars>>

\* The cleaning loop shared by chat_async and say_fn_async.
Clean(thread_messages, up) ==
    [i \in 1..Len(thread_messages) |->
        remove_and_extract_from_message(thread_messages[i], up)]

FirstRaised(results) ==
    LET bad == {i \in 1..Len(results) : results[i].raised # "none"}
    IN  IF bad = {} THEN <<>>
        ELSE <<results[CHOOSE i \in bad : \A j \in bad : i <= j].raised>>

\* say_fn_async from the cleaning loop on: the combined contents.
say_fn_async(thread_messages, up) ==
    LET results == Clean(thread_messages, up) IN
    IF FirstRaised(results) # <<>>
    THEN [raised |-> FirstRaised(results), value |-> <<>>]
    ELSE [raised |-> <<>>,
          value |-> combine_strings([i \in 1..Len(results) |-> results[i].value.content])]

\* The try block of chat_async.  assistant_response_content is computed
\* and the Message is built from the cleaned last message.
ChatAsyncTry(s, up) ==
    IF s.state = "none" THEN [raised |-> <<"TypeError">>, value |-> <<>>]
    ELSE IF s.thread_messages = <<>> THEN [raised |-> <<"IndexError">>, value |-> <<>>]
    ELSE LET results == Clean(s.thread_messages, up)
             last_assistant_thread_message == s.thread_messages[Len(s.thread_messages)]
             clean_final_assistant_message == results[Len(results)]
         IN  IF FirstRaised(results) # <<>>
             THEN [raised |-> FirstRaised(results), value |-> <<>>]
             ELSE [raised |-> <<>>,
                   value |->
                     [kind |-> "tuple",
                      assistant |->
                        [id |-> last_assistant_thread_message.id,
                         role |-> "ASSISTANT",
                         content |-> clean_final_assistant_message.value.content,
                         metadata |->
                           [conversation_id |-> "thread",
                            annotations |-> combine_strings(
                               [i \in 1..Len(results) |-> results[i].value.annotations])]],
                      user |-> [id |-> s.user_message.id, role |-> "USER",
                                content |-> <<"hi">>,
                                metadata |-> [conversation_id |-> "thread"]]]]

\* The except block of chat_async: the fallback Message is bound to
\* `message`; building user_response_message then reads
\* user_thread_message, unbound when say_async returned None, and passes
\* the Message as content where a str is required.
ChatAsyncExcept(e, s) ==
    IF s.state = "none"
    THEN [raised |-> <<"UnboundLocalError">>, value |-> <<>>]
    ELSE [raised |-> <<"ValidationError">>, value |-> <<>>]

chat_async(s, up) ==
    LET r == ChatAsyncTry(s, up) IN
    IF r.raised = <<>> THEN r ELSE ChatAsyncExcept(r.raised, s)

\* Faulty variant: chat lets the exception of chat_async through.
chat_NoExcept(r) ==
    IF r.raised # <<>>
    THEN [state |-> "raised", success |-> FALSE]
    ELSE [state |-> "returned", success |-> TRUE,
          data |-> [message |-> r.value.assistant,
                    conversation_id |-> r.value.assistant.metadata.conversation_id]]

\* ChatService.chat from the call of chat_async on (chat.py 258-305).
chat(r) ==
    IF r.raised # <<>> THEN FallbackResponse(r.raised)
    ELSE IF r.value.kind # "tuple" THEN FallbackResponse(<<"ValueError">>)
    ELSE [state |-> "returned", success |-> TRUE,
          data |-> [message |-> r.value.assistant,
                    conversation_id |-> r.value.assistant.metadata.conversation_id]]

\* chat_async on what say_async returned, the response of chat, and the
\* hand-off of update_conversation_with_evals to the background tasks.
ChatReturn ==
    /\ turn = "assemble"
    /\ turn' = "returned"
    /\ reply' = chat_async(said, filesUp)
    /\ response' = chat(reply')
    /\ task' = IF response'.state = "returned" /\ response'.success
               THEN [state |-> "scheduled",
                     new_messages |-> <<reply'.value.user, reply'.value.assistant>>]
               ELSE task
    /\ UNCHANGED said
    /\ UNCHANGED <<runVars, stepVars, mergeVars, annVars, threadVars>>

\* Where the background task may fail.
TaskSteps == {"get_last_n_messages", "add_message", "evaluation", "read_conversation"}

\* Faulty variant: the body runs without its try.
update_conversation_with_evals_NoTry(failing) ==
    IF "get_last_n_messages" \in failing
    THEN [state |-> "done", raised |-> <<"PrismaError">>, value |-> "None"]
    ELSE [state |-> "done", raised |-> <<>>,
          value |-> IF "read_conversation" \in failing THEN "None" ELSE "conversation"]

\* update_conversation_with_evals: add_messages_to_conversation,
\* evaluation_service.run and read_conversation catch their own failures,
\* the try of the function catches the failure of get_last_n_messages.
update_conversation_with_evals(failing) ==
    [state |-> "done", raised |-> <<>>,
     value |-> IF failing \cap {"get_last_n_messages", "read_conversation"} # {}
               THEN "None" ELSE "conversation"]

\* The background task runs once the response has gone out.
BackgroundTask ==
    /\ task.state = "scheduled"
    /\ \E failing \in SUBSET TaskSteps :
         task' = update_conversation_with_evals(failing)
    /\ UNCHANGED <<turn, said, reply, response>>
    /\ UNCHANGED <<runVars, stepVars, mergeVars, annVars, threadVars>>

ChatIdle ==
    /\ turn = "idle"
    /\ said = NotSaid
    /\ reply = NotReplied
    /\ response = NoResponse
    /\ task = NotScheduled

AuxIdle == AnnIdle /\ ThreadIdle /\ ChatIdle

----------------------------------------------------------------------------

Init ==
    /\ pc = "create"
    /\ run = NoRun
    /\ data = EmptyDict
    /\ remote = NoRun
    /\ issued = [batches |-> 0, calls |-> 0]
    /\ submitLog = <<>>
    /\ resolved = <<>>
    /\ iter = [resolve |-> 0, sleep |-> 0, retrieve |-> 0]
    /\ failure = "none"
    /\ caught = [type |-> "none", data |-> EmptyDict]
    /\ sent = [create |-> 0, afterFail |-> 0, afterFailed |-> 0, cancel |-> 0,
               afterCancel |-> 0, submits |-> 0]
    /\ steps = <<>>
    /\ remoteSteps = <<>>
    /\ stepOps = 0
    /\ synced = FALSE
    /\ fetched = <<>>
    /\ known = <<>>
    /\ merged = FALSE
    /\ AuxIdle

RunStep == CreateRun \/ LoopExit \/ LoopPoll \/ HandleRequiresAction \/ Sleep \/ Refresh

RemoteStep ==
    RemoteStart \/ RemoteRequiresAction \/ RemoteComplete \/ RemoteFail
        \/ RemoteExpire \/ RemoteCancel

Next == RunStep \/ RemoteStep

Spec == Init /\ [][Next]_vars

\* The run against a remote whose reads may lag behind an accepted submit.
StaleNext == Next \/ RefreshStale

SpecStale == Init /\ [][StaleNext]_vars

\* A run that create-run has returned, with no step known yet.
InitSteps ==
    /\ pc = "loop"
    /\ run = [status |-> "queued", required_action |-> <<>>, last_error |-> "none"]
    /\ remote = run
    /\ data = EmptyDict
    /\ issued = [batches |-> 0, calls |-> 0]
    /\ submitLog = <<>>
    /\ resolved = <<>>
    /\ iter = [resolve |-> 0, sleep |-> 0, retrieve |-> 0]
    /\ failure = "none"
    /\ caught = [type |-> "none", data |-> EmptyDict]
    /\ sent = [create |-> 1, afterFail |-> 0, afterFailed |-> 0, cancel |-> 0,
               afterCancel |-> 0, submits |-> 0]
    /\ steps = <<>>
    /\ remoteSteps = <<>>
    /\ stepOps = 0
    /\ synced = FALSE
    /\ fetched = <<>>
    /\ known = <<>>
    /\ merged = FALSE
    /\ AuxIdle

StepsNext == RemoteAppendSteps \/ RemoteCompleteStep \/ RefreshRunSteps

SpecSteps == InitSteps /\ [][StepsNext]_vars

\* The lists of at most MaxMergeLen steps with distinct ids and one status.
StepLists(status) ==
    UNION { { [i \in 1..n |-> [id |-> f[i], status |-> status]] :
                f \in {g \in [1..n -> 1..MaxMergeIds] :
                          \A i, j \in 1..n : i # j => g[i] # g[j]} } :
            n \in 0..MaxMergeLen }

\* Every known list (as an earlier refresh left it, steps in progress)
\* against every fetched list (the steps as they are now, completed).
InitMerge ==
    /\ pc = "loop"
    /\ run = [status |-> "queued", required_action |-> <<>>, last_error |-> "none"]
    /\ remote = run
    /\ data = EmptyDict
    /\ issued = [batches |-> 0, calls |-> 0]
    /\ submitLog = <<>>
    /\ resolved = <<>>
    /\ iter = [resolve |-> 0, sleep |-> 0, retrieve |-> 0]
    /\ failure = "none"
    /\ caught = [type |-> "none", data |-> EmptyDict]
    /\ sent = [create |-> 1, afterFail |-> 0, afterFailed |-> 0, cancel |-> 0,
               afterCancel |-> 0, submits |-> 0]
    /\ steps \in StepLists("in_progress")
    /\ fetched \in StepLists("completed")
    /\ remoteSteps = <<>>
    /\ stepOps = 0
    /\ synced = FALSE
    /\ known = <<>>
    /\ merged = FALSE
    /\ AuxIdle

MergeNext == UpdateKnownSteps

SpecMerge == InitMerge /\ [][MergeNext]_vars

RunIdle ==
    /\ pc = "idle"
    /\ run = NoRun
    /\ data = EmptyDict
    /\ remote = NoRun
    /\ issued = [batches |-> 0, calls |-> 0]
    /\ submitLog = <<>>
    /\ resolved = <<>>
    /\ iter = [resolve |-> 0, sleep |-> 0, retrieve |-> 0]
    /\ failure = "none"
    /\ caught = [type |-> "none", data |-> EmptyDict]
    /\ sent = [create |-> 0, afterFail |-> 0, afterFailed |-> 0, cancel |-> 0,
               afterCancel |-> 0, submits |-> 0]

StepsIdle ==
    /\ steps = <<>>
    /\ remoteSteps = <<>>
    /\ stepOps = 0
    /\ synced = FALSE
    /\ fetched = <<>>
    /\ known = <<>>
    /\ merged = FALSE

\* Every message, with the files API up or down.
InitAnnot ==
    /\ RunIdle
    /\ StepsIdle
    /\ message \in ThreadMessages(MaxAnnotations)
    /\ filesUp \in BOOLEAN
    /\ cleaned = NotCleaned
    /\ ThreadIdle
    /\ ChatIdle

AnnotNext == RemoveAndExtract

SpecAnnot == InitAnnot /\ [][AnnotNext]_vars

\* Every thread of at most MaxThread messages, and a call of get_messages
\* with any of its messages as after_message, with or without a later
\* before_message, with and without a limit.
InitThread ==
    /\ RunIdle
    /\ StepsIdle
    /\ AnnIdle
    /\ \E n \in 0..MaxThread : thread = ThreadOf(n)
    /\ query \in [called : {TRUE}, limit : {0, 1, 3},
                  after_message : 1..Len(thread),
                  before_message : 0..Len(thread)]
    /\ query.before_message = 0 \/ query.before_message > query.after_message
    /\ page = NoPage
    /\ monitor = NewMonitor
    /\ ChatIdle

ThreadNext == GetMessages

SpecThread == InitThread /\ [][ThreadNext]_vars

\* A turn on a new thread or on one that holds an earlier turn, with the
\* files API up or down.
InitChat ==
    /\ RunIdle
    /\ StepsIdle
    /\ message = NoMessage
    /\ cleaned = NotCleaned
    /\ filesUp \in BOOLEAN
    /\ thread \in {ThreadOf(0), ThreadOf(2)}
    /\ query = [called |-> FALSE, limit |-> 0, before_message |-> 0,
                after_message |-> 0]
    /\ page = NoPage
    /\ monitor = NewMonitor
    /\ turn = "load"
    /\ said = NotSaid
    /\ reply = NotReplied
    /\ response = NoResponse
    /\ task = NotScheduled

ChatStep == ChatLoad \/ SayAdd \/ SayGet \/ ChatReturn \/ BackgroundTask

ChatNext ==
    ChatStep \/ RunStep \/ RemoteStart \/ RemoteRequiresOneCall \/ RemoteComplete
        \/ RemoteFail \/ RemoteExpire \/ RemoteCancel \/ RemotePostMessage

SpecChat == InitChat /\ [][ChatNext]_vars

\* The turn with a second turn on the same thread, on a new thread with
\* the files API up.
InitTurns == InitChat /\ thread = <<>> /\ filesUp

TurnsNext == ChatNext \/ OtherTurnAdd \/ OtherRunPost

SpecTurns == InitTurns /\ [][TurnsNext]_vars

\* A ThreadMonitor on a thread that starts empty and changes at most
\* MaxMonitorOps times.
InitMonitor ==
    /\ RunIdle
    /\ StepsIdle
    /\ AnnIdle
    /\ ThreadIdle
    /\ ChatIdle

MonitorStep == RunOnce \/ GetLatestBatch

MonitorNext == MonitorStep \/ RemoteCreateMessages \/ RemotePopulateMessage

SpecMonitor == InitMonitor /\ [][MonitorNext]_vars

\* The same with the monitor's steps taken whenever they stay possible:
\* run_async calls run_once in a loop, and get_latest_messages loops
\* without yielding.
FairSpecMonitor == InitMonitor /\ [][MonitorNext]_vars /\ WF_vars(MonitorStep)

\* The run against a remote that asks for one tool call at a time, with the
\* steps of run_async taken whenever they stay possible (the event loop
\* resumes the coroutine after each await).
FairNext ==
    RunStep \/ RemoteStart \/ RemoteRequiresOneCall \/ RemoteComplete
        \/ RemoteFail \/ RemoteExpire \/ RemoteCancel

FairSpec == Init /\ [][FairNext]_vars /\ WF_vars(RunStep)

----------------------------------------------------------------------------
(* Properties of tool resolution and of the poll loop.                     *)

\* The batch run_async holds, and whether _handle_step_requires_action has
\* run on it (self.run changes only at the next retrieve-run).
HeldBatch == run.required_action
Handled == run.status = "requires_action" /\ pc \notin {"create", "loop"}

Ids(batch) == {c.id : c \in Range(batch)}
CallResult(c) == call_function_tool(Tools, c.name, c.arguments)
Raises(c) == CallResult(c).raised = "Exception"

\* The position of the first tool call of the batch that raises CancelRun.
CancelIndex(batch) ==
    LET hits == {i \in 1..Len(batch) : CallResult(batch[i]).raised = "CancelRun"}
    IN  IF hits = {} THEN 0 ELSE CHOOSE i \in hits : \A j \in hits : i <= j

\* The submit_tool_outputs requests that carry an output of the batch.
RequestsFor(batch) ==
    {i \in 1..Len(submitLog) :
        \E o \in Range(submitLog[i]) : o.tool_call_id \in Ids(batch)}

\* No tool of the run with this function name has a bound callable.
NoBoundTool(name) ==
    ~ \E t \in Range(Tools) :
        t.type = "function" /\ t.name = name /\ t.python_fn # "none"

EndsWith(s, tail) ==
    /\ Len(s) >= Len(tail)
    /\ SubSeq(s, Len(s) - Len(tail) + 1, Len(s)) = tail

\* C1: once _handle_step_requires_action has run on a batch of N tool calls
\* none of which raises CancelRun, exactly one submit_tool_outputs request
\* was made for the batch, its list has N entries and holds every
\* tool_call id exactly once, however many calls raised other exceptions.
C1_OneSubmitWithNOutputs ==
    (Handled /\ CancelIndex(HeldBatch) = 0) =>
        LET reqs == RequestsFor(HeldBatch) IN
        /\ Cardinality(reqs) = 1
        /\ \A i \in reqs :
             /\ Len(submitLog[i]) = Len(HeldBatch)
             /\ \A c \in Range(HeldBatch) :
                  Cardinality({j \in 1..Len(submitLog[i]) :
                                  submitLog[i][j].tool_call_id = c.id}) = 1

C1_Witness ==
    /\ Handled
    /\ CancelIndex(HeldBatch) = 0
    /\ Len(HeldBatch) = 3
    /\ Cardinality({i \in 1..3 : Raises(HeldBatch[i])}) >= 2
    /\ RequestsFor(HeldBatch) # {}

\* C2: an exception other than CancelRun raised while resolving one tool
\* call becomes that call's output string and aborts nothing: every call of
\* the batch is passed to call_function_tool, the batch is submitted with
\* an output for each call (the error text for a call that raised, the
\* result for a call that did not), and unless a remote request fails the
\* poll loop goes on to its sleep and retrieve.
C2_ToolExceptionIsAnOutput ==
    (Handled /\ CancelIndex(HeldBatch) = 0) =>
        /\ \A c \in Range(HeldBatch) : c.id \in Range(resolved)
        /\ RequestsFor(HeldBatch) # {}
        /\ \A i \in RequestsFor(HeldBatch) : \A c \in Range(HeldBatch) :
             \E o \in Range(submitLog[i]) :
                /\ o.tool_call_id = c.id
                /\ IF Raises(c)
                   THEN /\ EndsWith(o.output, CallResult(c).output)
                        /\ Len(o.output) > Len(CallResult(c).output)
                   ELSE o.output = CallResult(c).output
        /\ failure = "none" => pc \in {"sleep", "refresh"}

C2_Witness ==
    /\ Handled
    /\ pc = "sleep"
    /\ failure = "none"
    /\ Len(HeldBatch) = 3
    /\ Raises(HeldBatch[1])
    /\ CallResult(HeldBatch[2]).raised = "none"
    /\ Raises(HeldBatch[3])
    /\ Len(submitLog[Len(submitLog)]) = 3

\* C3: for a tool call whose function name has no tool with a bound
\* callable, the submitted batch holds exactly one entry for that call id
\* and its output is an error string that names the function.
C3_UnknownFunctionIsNamed ==
    (Handled /\ CancelIndex(HeldBatch) = 0) =>
        \A c \in Range(HeldBatch) :
            NoBoundTool(c.name) =>
                /\ RequestsFor(HeldBatch) # {}
                /\ \A i \in RequestsFor(HeldBatch) :
                     LET mine == {j \in 1..Len(submitLog[i]) :
                                     submitLog[i][j].tool_call_id = c.id}
                     IN  /\ Cardinality(mine) = 1
                         /\ \A j \in mine :
                              /\ submitLog[i][j].output[1] = "Error calling function "
                              /\ c.name[1] \in Range(submitLog[i][j].output)

C3_Witness ==
    /\ Handled
    /\ CancelIndex(HeldBatch) = 0
    /\ \E c \in Range(HeldBatch) : c.name = <<"foo">>
    /\ RequestsFor(HeldBatch) # {}

\* C4: when the k-th tool call of a batch raises CancelRun, no
\* submit_tool_outputs request is made for the batch (every request made
\* belongs to an earlier batch) and call_function_tool is called for the
\* calls 1..k of the batch only.
C4_CancelRunAbortsBatch ==
    (Handled /\ CancelIndex(HeldBatch) > 0) =>
        /\ \A i \in 1..Len(submitLog) :
             /\ submitLog[i] # <<>>
             /\ \A o \in Range(submitLog[i]) : o.tool_call_id \notin Ids(HeldBatch)
        /\ SelectSeq(resolved, LAMBDA id : id \in Ids(HeldBatch))
             = [j \in 1..CancelIndex(HeldBatch) |-> HeldBatch[j].id]

C4_Witness ==
    /\ Handled
    /\ pc = "done"
    /\ Len(HeldBatch) = 3
    /\ CancelIndex(HeldBatch) = 2

\* C5: when run_async returns after a tool raised CancelRun, the status of
\* the run it returns is cancelled.
C5_StatusCancelledOnReturn ==
    (pc = "done" /\ caught.type = "CancelRun") => run.status = "cancelled"

\* C6: when run_async returns after a tool raised CancelRun with payload P,
\* self.data is P: the tool outputs recorded for the earlier calls of the
\* batch are replaced, not merged.
C6_DataIsPayload ==
    (pc = "done" /\ caught.type = "CancelRun") =>
        /\ data = caught.data
        /\ data = CancelPayload
        /\ "tool_outputs" \notin DOMAIN data

C6_Witness ==
    /\ pc = "done"
    /\ caught.type = "CancelRun"
    /\ CancelIndex(HeldBatch) >= 2
    /\ data = CancelPayload

\* C7: run_async returns only while the status it holds is one of
\* completed, failed, cancelled, expired.
C7_ReturnsOnlyOnTerminal ==
    pc = "done" => run.status \in TerminalStatuses

\* C8: each loop iteration resolves tools, sleeps and retrieves the run at
\* most once, and if no remote request fails and the remote run reaches a
\* terminal status, run_async returns.
C8_RunAsyncReturns ==
    /\ [](iter.resolve <= 1 /\ iter.sleep <= 1 /\ iter.retrieve <= 1)
    /\ ([](failure = "none") /\ <>(remote.status \in TerminalStatuses))
           => <>(pc = "done")

C8_Witness ==
    /\ pc = "done"
    /\ failure = "none"
    /\ run.status = "completed"
    /\ submitLog # <<>>
    /\ iter = [resolve |-> 0, sleep |-> 1, retrieve |-> 1]

----------------------------------------------------------------------------
(* Properties of refresh_run_steps.                                        *)

\* C9: refresh_run_steps is idempotent: once it has run and the remote feed
\* has not changed since, running it again leaves self.steps as it is (same
\* ids, same order, same versions).
C9_RefreshIdempotent ==
    synced => refresh_run_steps(steps, remoteSteps) = steps

C9_Witness ==
    /\ synced
    /\ Len(steps) > max_fetched
    /\ Len(steps) < Len(remoteSteps)
    /\ \E i \in 1..Len(steps) : steps[i].status = "in_progress"

\* The merge as the claim words it: walking K from the end, every entry
\* whose id is in F takes F's version, up to the first id that is not in F;
\* the entries before it stay; the entries of F not used are appended in
\* F's order.
ReferenceMerge(K, F) ==
    LET absent == {i \in 1..Len(K) : K[i].id \notin StepIds(F)}
        stop == IF absent = {} THEN 0
                ELSE CHOOSE i \in absent : \A j \in absent : j <= i
        used == {K[i].id : i \in (stop + 1)..Len(K)}
        version(id) == CHOOSE f \in Range(F) : f.id = id
    IN  SubSeq(K, 1, stop)
        \o [i \in 1..(Len(K) - stop) |-> version(K[stop + i].id)]
        \o SelectSeq(F, LAMBDA f : f.id \notin used)

IdsOf(s) == [i \in 1..Len(s) |-> s[i].id]

\* C10: the merge of refresh_run_steps gives the reference merge of the
\* known list K and the fetched list F; K = [1,2,3] with F = [2,3,4] gives
\* [1,2,3,4] with 2 and 3 in F's version, and an empty fetch leaves K as it
\* is.
C10_MergeIsReferenceMerge ==
    merged =>
        /\ steps = ReferenceMerge(known, fetched)
        /\ fetched = <<>> => steps = known
        /\ (IdsOf(known) = <<1, 2, 3>> /\ IdsOf(fetched) = <<2, 3, 4>>) =>
              steps = <<known[1], fetched[1], fetched[2], fetched[3]>>

C10_Witness ==
    /\ merged
    /\ IdsOf(known) = <<1, 2, 3>>
    /\ IdsOf(fetched) = <<2, 3, 4>>
    /\ IdsOf(steps) = <<1, 2, 3, 4>>
    /\ steps[2].status = "completed"
    /\ steps[1].status = "in_progress"

\* C11: whatever remote appends and in-place status updates come between
\* the calls of refresh_run_steps, and also after a refresh that stopped at
\* the 100-step cap and left a gap, self.steps holds no id twice and its
\* ids are strictly ascending (ids number the steps in creation order).
C11_StepsAscendingUnique ==
    /\ Cardinality(StepIds(steps)) = Len(steps)
    /\ \A i \in 1..(Len(steps) - 1) : steps[i].id < steps[i + 1].id

\* A gap was left behind, and a later refresh has picked up an in-place
\* update of the newest step.
C11_Witness ==
    /\ synced
    /\ Len(steps) > max_fetched
    /\ \E i \in 1..(Len(steps) - 1) : steps[i + 1].id > steps[i].id + 1
    /\ steps[Len(steps)].status = "completed"
    /\ steps[Len(steps)].id = Len(remoteSteps)

----------------------------------------------------------------------------
(* Properties of OpenAIAnnotations.                                        *)

\* Something failed inside remove_and_extract_from_message: removing the
\* annotated texts raised, or building the citations did.
InternalFailure(m, up) ==
    \/ remove_from_message(m).raised # "none"
    \/ TryExtract(m, up).raised # "none"

\* C12: remove_and_extract_from_message never raises, and on any internal
\* failure (a malformed annotation object, a failed file lookup) it returns
\* the original, unmodified text of the message with an empty annotations
\* list.
C12_NeverRaisesFallsBack ==
    cleaned # NotCleaned =>
        /\ cleaned.raised = "none"
        /\ InternalFailure(message, filesUp) =>
              cleaned.value = [content |-> message.content[1].text.value,
                               annotations |-> <<>>]

----------------------------------------------------------------------------
(* Properties of OpenAIThread.                                             *)

CreatedAt(id) == thread[IndexOf(thread, id)].created_at

\* C20: get_messages sends after_message as the remote `before` and
\* before_message as the remote `after` and reverses the page, so for every
\* thread and message X, get_messages(after_message=X) is in ascending
\* chronological order and holds only messages created after X.
C20_AfterMessageAscending ==
    (page # NoPage /\ query.after_message # 0) =>
        /\ \A i \in 1..(Len(page) - 1) : page[i].created_at < page[i + 1].created_at
        /\ \A i \in 1..Len(page) :
             /\ page[i] \in Range(thread)
             /\ page[i].created_at > CreatedAt(query.after_message)

\* More messages follow X than a page holds.
C20_Witness ==
    /\ page # NoPage
    /\ query.limit = 0
    /\ query.before_message = 0
    /\ query.after_message = 1
    /\ Len(thread) = MaxThread
    /\ Len(page) = DefaultLimit
    /\ page[1].id = 2

----------------------------------------------------------------------------
(* Properties of a conversational turn.                                    *)

\* The cleaned contents of the assistant messages of the turn, in order.
CleanedContents ==
    [i \in 1..Len(said.thread_messages) |->
        remove_and_extract_from_message(said.thread_messages[i], filesUp).value.content]

\* C14: for a turn whose run produced the assistant messages m1 .. mn, the
\* content of the one reply returned (the assistant Message of chat_async,
\* the string of say_fn_async) is the concatenation of the cleaned contents
\* of m1 .. mn in that order.
C14_ReplyIsConcatenation ==
    (turn = "returned" /\ reply.raised = <<>>) =>
        /\ reply.value.assistant.content = combine_strings(CleanedContents)
        /\ say_fn_async(said.thread_messages, filesUp).value
              = combine_strings(CleanedContents)

\* A step of the turn failed: say_async returned None (adding the user
\* message, creating the run, polling, retrieving or showing the messages
\* raised), the run left no assistant message, or cleaning a message
\* raised.
TurnFailed ==
    /\ said # NotSaid
    /\ \/ said.state = "none"
       \/ said.thread_messages = <<>>
       \/ \E m \in Range(said.thread_messages) :
             remove_and_extract_from_message(m, filesUp).raised # "none"

\* C15: ChatService.chat never raises to its caller, and whenever a step of
\* the turn fails it returns an AssistantResponse with success False whose
\* message has role assistant and the fixed fallback text.
C15_ChatNeverRaises ==
    /\ response.state # "raised"
    /\ (turn = "returned" /\ TurnFailed) =>
          /\ response.state = "returned"
          /\ ~response.success
          /\ response.data.message.role = "ASSISTANT"
          /\ response.data.message.content = FallbackText

\* The retrieve-run request failed while polling.
C15_Witness ==
    /\ turn = "returned"
    /\ ~response.success
    /\ response.data.message.content = FallbackText
    /\ said.state = "none"
    /\ said.error = <<"APIError", "retrieve">>

\* The error that made the turn fail.
UnderlyingError ==
    IF said.state = "none" THEN said.error ELSE ChatAsyncTry(said, filesUp).raised

\* C16: when the turn degrades to the fallback reply, the error recorded in
\* the metadata of the reply is the underlying error that made the turn
\* fail, kept through every layer from run_async to ChatService.chat.
C16_ErrorIsUnderlying ==
    (turn = "returned" /\ TurnFailed) =>
        response.data.message.metadata.error = Str(UnderlyingError)

\* C17: update_conversation_with_evals is scheduled only after a successful
\* reply has been assembled, no exception escapes the background task
\* whatever fails inside it, and the AssistantResponse returned with
\* success True does not change afterwards.
C17_HandOffIsFireAndForget ==
    /\ [](task # NotScheduled =>
            /\ reply.raised = <<>>
            /\ response.state = "returned" /\ response.success)
    /\ [](task.state = "done" => task.raised = <<>>)
    /\ [][response.state = "returned" => response' = response]_vars

C17_Witness ==
    /\ task.state = "done"
    /\ task.value = "None"
    /\ response.success
    /\ Len(said.thread_messages) = 2

----------------------------------------------------------------------------
(* Properties of the remote requests of run_async.                         *)

\* C18: run_async issues create-run exactly once per call; once the status
\* retrieved is failed it stops polling and returns the run with status
\* failed and the last_error the remote supplied, with no further request
\* (no other run is created, nothing is retried).
C18_CreateOnceFailedStops ==
    /\ sent.create <= 1
    /\ pc \notin {"idle", "create"} => sent.create = 1
    /\ run.status = "failed" =>
          /\ pc \in {"loop", "done"}
          /\ sent.afterFailed = 0
          /\ remote.status = "failed"
          /\ run.last_error = remote.last_error
          /\ run.last_error # "none"

C18_Witness ==
    /\ pc = "done"
    /\ run.status = "failed"
    /\ run.last_error = "server_error"
    /\ submitLog # <<>>
    /\ sent.create = 1

\* C19: when a remote request of run_async fails (create-run, retrieve-run
\* while polling, submit-tool-outputs), run_async raises to its caller, the
\* request is not issued again and no other request is made for the run.
C19_RequestFailurePropagates ==
    /\ failure # "none" => pc = "raised"
    /\ sent.afterFail = 0
    /\ failure = "create" => sent.create = 1 /\ run = NoRun
    /\ failure = "submit" => Cardinality(RequestsFor(HeldBatch)) = 1
    /\ failure = "retrieve" => iter.retrieve = 1

\* The retrieve-run request fails in a later iteration of the poll loop.
C19_Witness ==
    /\ pc = "raised"
    /\ failure = "retrieve"
    /\ submitLog # <<>>
    /\ run.status = "requires_action"

----------------------------------------------------------------------------
(* Cancellation ends the run with one cancel-run request.                  *)

\* C21: after a tool has raised CancelRun, run_async has issued exactly one
\* cancel-run request and no retrieve-run or submit-tool-outputs request
\* after catching it, and the call is over: it has returned, or, when the
\* cancel-run request itself failed, ended with that failure.  No cancel-run
\* request is issued without CancelRun.
C21_CancelOnceThenReturn ==
    /\ caught.type = "CancelRun" =>
          /\ sent.cancel = 1
          /\ sent.afterCancel = 0
          /\ pc \in {"done", "raised"}
          /\ pc = "raised" <=> failure = "cancel"
          /\ iter.sleep = 0 /\ iter.retrieve = 0
    /\ caught.type # "CancelRun" => sent.cancel = 0

\* A second batch is cancelled after the first one was submitted, and the
\* call has returned.
C21_Witness ==
    /\ caught.type = "CancelRun"
    /\ pc = "done"
    /\ sent.cancel = 1
    /\ Len(submitLog) = 1
    /\ issued.batches = 2

----------------------------------------------------------------------------
(* Submits and retrieves alternate.                                        *)

\* C22: when the run held shows requires_action, the outputs of that batch
\* have been submitted by the time the loop sleeps and issues the next
\* retrieve-run; a submit_tool_outputs request is only issued while the run
\* last returned by create-run or retrieve-run has status requires_action,
\* and at most one is issued between two retrieve-run requests.
C22_SubmitBetweenRetrieves ==
    /\ (pc \in {"sleep", "refresh"} /\ run.status = "requires_action") =>
          /\ sent.submits = 1
          /\ submitLog # <<>>
          /\ {o.tool_call_id : o \in Range(submitLog[Len(submitLog)])}
                = Ids(HeldBatch)
    /\ sent.submits >= 1 => run.status = "requires_action"
    /\ sent.submits <= 1

\* The loop is about to retrieve the run after submitting its second batch.
C22_Witness ==
    /\ pc = "refresh"
    /\ run.status = "requires_action"
    /\ sent.submits = 1
    /\ Len(submitLog) = 2

----------------------------------------------------------------------------
(* The cost of one refresh_run_steps call.                                 *)

\* The newest n steps of the feed, oldest first.
Newest(feed, n) ==
    SubSeq(feed, (IF n < Len(feed) THEN Len(feed) - n ELSE 0) + 1, Len(feed))

\* How many steps k list requests of a page of 50 have fetched.
FetchedBy(feed, k) == IF 50 * k < Len(feed) THEN 50 * k ELSE Len(feed)

LatestKnown == IF steps = <<>> THEN 0 ELSE steps[Len(steps)].id

\* C23: for the step list held and the remote feed as it is, a call of
\* refresh_run_steps makes at most 1 + 4 list-run-steps requests; each
\* paging request is made while the last known step is not among the steps
\* fetched so far and fewer than 100 steps were fetched; what was fetched
\* is the newest part of the feed, and when the last known step is not in
\* it, the call still appends all of it to the history.
C23_BoundedFetchPartialMerge ==
    LET f == FetchRunSteps(steps, remoteSteps)
    IN  /\ f.requests >= 1
        /\ f.requests <= 1 + 4
        /\ \A k \in 1..(f.requests - 1) :
              /\ LatestKnown \notin StepIds(Newest(remoteSteps, 50 * k))
              /\ FetchedBy(remoteSteps, k) < 100
        /\ f.run_steps = Newest(remoteSteps, 50 * f.requests)
        /\ (steps # <<>> /\ f.run_steps # <<>>
                /\ LatestKnown \notin StepIds(f.run_steps)) =>
              refresh_run_steps(steps, remoteSteps) = steps \o f.run_steps

\* A refresh has hit the cap: the history it left jumps over steps that
\* were never fetched, and it ends with the newest 100 steps.
C23_Witness ==
    /\ synced
    /\ \E i \in 1..(Len(steps) - 1) : steps[i + 1].id > steps[i].id + 1
    /\ Len(steps) > 100
    /\ SubSeq(steps, Len(steps) - 99, Len(steps)) = Newest(remoteSteps, 100)

----------------------------------------------------------------------------
(* The merge leaves the known history in place.                            *)

\* The last position of the known list whose id was not fetched (0: none).
LastUnfetched ==
    LET absent == {i \in 1..Len(known) : known[i].id \notin StepIds(fetched)}
    IN  IF absent = {} THEN 0 ELSE CHOOSE i \in absent : \A j \in absent : j <= i

\* C24: after the merge the ids of the list known before are a prefix of
\* the ids of self.steps, and every entry up to the last known step that
\* was not fetched is the entry it was, also when a fresher version of it
\* was fetched.
C24_KnownIsPrefix ==
    merged =>
        /\ Len(steps) >= Len(known)
        /\ SubSeq(IdsOf(steps), 1, Len(known)) = IdsOf(known)
        /\ \A i \in 1..LastUnfetched : steps[i] = known[i]

\* An entry older than an unfetched known step was fetched in a fresher
\* version and kept its previous one.
C24_Witness ==
    /\ merged
    /\ \E i \in 1..(LastUnfetched - 1) :
          /\ known[i].id \in StepIds(fetched)
          /\ steps[i] = known[i]
          /\ steps[i] \notin Range(fetched)
    /\ known[Len(known)].id \in StepIds(fetched)

----------------------------------------------------------------------------
(* OpenAIRun and RunMonitor refresh their steps alike.                     *)

\* C30: from the step list held, against the remote feed as it is and
\* against a feed that lists no step, OpenAIRun.refresh_run_steps_async and
\* RunMonitor.refresh_run_steps_async make the same list-run-steps requests
\* (as many, with the same cursors) and end with the same step list.
C30_MonitorRefreshEquivalent ==
    \A feed \in {remoteSteps, <<>>} :
        LET f == FetchRunSteps(steps, feed)
            g == RunMonitor_FetchRunSteps(steps, feed)
        IN  /\ g.requests = f.requests
            /\ g.after = f.after
            /\ RunMonitor_refresh_run_steps(steps, feed)
                  = refresh_run_steps(steps, feed)

\* Steps are known from an earlier refresh, a first page without steps
\* leaves the monitor's list as it is, and against the feed as it has grown
\* since both page backward.
C30_Witness ==
    /\ ~synced
    /\ steps # <<>>
    /\ RunMonitor_FetchRunSteps(steps, <<>>).run_steps = <<>>
    /\ RunMonitor_refresh_run_steps(steps, <<>>) = steps
    /\ Len(RunMonitor_FetchRunSteps(steps, remoteSteps).after) = 1
    /\ RunMonitor_refresh_run_steps(steps, remoteSteps) # steps

----------------------------------------------------------------------------
(* The citation records of extract_from_message.                           *)

\* remove_and_extract_from_message has called extract_from_message on the
\* message: the removal before it did not raise.
Extracted == cleaned # NotCleaned /\ remove_from_message(message).raised = "none"

MessageAnnotations == message.content[1].text.annotations
Records == cleaned.value.annotations

\* The file id an annotation points to ("" when it names none).
FileIdOf(a) ==
    IF "file_citation" \in DOMAIN a THEN a.file_citation.file_id
    ELSE IF "file_path" \in DOMAIN a THEN a.file_path.file_id
    ELSE ""

\* The record is the citation of the annotation: its type follows the kind
\* of the annotation, its text names the file and it carries the annotation.
RefersTo(rec, a) ==
    /\ FileIdOf(a) \in DOMAIN Files
    /\ rec.type = (IF "file_citation" \in DOMAIN a THEN "file_citation"
                   ELSE "file_download")
    /\ EndsWith(rec.value, Files[FileIdOf(a)])
    /\ rec.annotation \in {a, [dumped |-> a]}

Citable(a) == FileIdOf(a) # ""

\* The lookup of the file fails, or the citation has no quote to cite.
Unreadable(a) ==
    /\ Citable(a)
    /\ \/ ~filesUp
       \/ FileIdOf(a) \notin DOMAIN Files
       \/ "file_citation" \in DOMAIN a /\ "quote" \notin DOMAIN a.file_citation

----------------------------------------------------------------------------
(* What a ThreadMonitor delivers.                                          *)

\* C25: a call of get_latest_messages that has started returns once the
\* remote thread has stopped changing, also when a batch of 20 messages
\* holds only messages with empty text.
C25_LatestMessagesTerminates == (monitor.pc = "fetch") ~> (monitor.pc = "idle")

\* C29: between calls of run_once, what was passed to on_new_message is in
\* chronological order with no message passed twice, every message behind
\* last_message_id that has its text was passed, and last_message_id has
\* never moved back.
C29_EveryMessageDeliveredOnce ==
    /\ \A i, j \in 1..Len(monitor.delivered) :
          i < j => monitor.delivered[i] < monitor.delivered[j]
    /\ ~monitor.backward
    /\ monitor.pc = "idle" =>
          \A i \in 1..Len(thread) :
              (thread[i].id <= monitor.last_message_id /\ ~SkipMessage(thread[i]))
                  => thread[i].id \in Range(monitor.delivered)

----------------------------------------------------------------------------
(* Two turns on one thread.                                                *)

\* C28: the messages say_async hands to chat_async for the reply are
\* assistant messages of the turn's own run: none is a user message and
\* none belongs to the other turn.
C28_ReplyOnlyOwnRun ==
    said.state = "tuple" =>
        \A m \in Range(said.thread_messages) :
            m.role = "assistant" /\ "turn" \notin DOMAIN m

----------------------------------------------------------------------------
(* Tool calls are resolved once.                                           *)

\* C27: during one run_async call no tool call id is passed to
\* call_function_tool twice and none is submitted in two
\* submit_tool_outputs requests, also when a later poll shows the batch
\* that was handled again.
C27_ResolvedAtMostOnce ==
    /\ \A i, j \in 1..Len(resolved) : i # j => resolved[i] # resolved[j]
    /\ \A i, j \in 1..Len(submitLog) :
          i # j => {o.tool_call_id : o \in Range(submitLog[i])}
                     \cap {o.tool_call_id : o \in Range(submitLog[j])} = {}

====
